---- MODULE Spec2Model ----
(***************************************************************************)
(* A model of the CPU scheduling simulator: Job (job.py) and Scheduler     *)
(* (scheduler.py), with the test driver's use of them (testing.py).        *)
(*                                                                         *)
(* A Job object is identified by its job_id (Job.running_id hands out a    *)
(* fresh one per creation, and __eq__/__hash__ compare name and job_id),   *)
(* so the Job objects are the elements of JobIds.  Python lists are        *)
(* objects too: self.jobs is a reference to the caller's list, so the      *)
(* lists live in list_heap and jobs[s] is a reference into it.             *)
(***************************************************************************)
EXTENDS Integers, Sequences, FiniteSets, TLC

\* ------------------------------------------------------------------ bounds
NumJobs == 2        \* Job objects the general specifications create
MaxLen == 2         \* add_job is not called on a list this long
MaxTime == 2        \* largest time_required / amount / quantum drawn
MaxRunTime == 3     \* largest time_required drawn for the test driver's jobs
MaxClock == 2       \* a run whose clock would fall below -MaxClock is cut

Pool == 0 .. (NumJobs - 1)      \* job_id of the jobs created in general
ScenarioJobs == {0, 1, 2}       \* job_id of the jobs A, B, C
JobIds == Pool \cup ScenarioJobs
Scheds == {"s1", "s2"}          \* the Scheduler objects that may exist
DefaultList == "default"        \* the list object of the default argument
CallerList == "caller"          \* a list object built by the caller
ListIds == {DefaultList, CallerList}
NoList == "none"                \* jobs[s] of a Scheduler not yet created
NoSched == "nobody"             \* self when no process() frame exists
TimeValues == (0 - 1) .. MaxTime     \* a negative value, zero, positive ones
Quanta == {2, 5}                \* the time slices check_case runs with
Orderings == {"FCFS", "SJF", "RR"}

VARIABLES
    time_required,      \* Job.time_required, by job
    time_elapsed,       \* Job.time_elapsed, by job
    turnaround_time,    \* Job.turnaround_time, by job
    first_stamp,        \* history: the value of the first successful
                        \* set_turnaround_time since the job's creation or
                        \* last reset, as <<v>>, or <<>> when there is none
    list_heap,          \* the list objects: list id -> sequence of jobs
    jobs,               \* Scheduler.jobs: a reference to a list object
    schedule,           \* Scheduler.schedule: a list owned by the Scheduler
    ordering_method,    \* Scheduler.ordering_method
    rr_time,            \* Scheduler.rr_time
    pc,                 \* where the caller is: "idle", or inside process()
                        \* at the "while" test or in the "for" sweep
    self,               \* the Scheduler whose process() is running
    idx,                \* position of the for loop in schedule
    total_time_elapsed, \* process(): the running clock
    jobs_complete,      \* process(): the set of jobs completed in this run
    outcome             \* how the latest call ended

jobVars == <<time_required, time_elapsed, turnaround_time, first_stamp>>
schedVars == <<list_heap, jobs, schedule, ordering_method, rr_time>>
runVars == <<pc, self, idx, total_time_elapsed, jobs_complete>>
vars == <<jobVars, schedVars, runVars, outcome>>

\* ----------------------------------------------------------------- helpers
Min(a, b) == IF a <= b THEN a ELSE b

RECURSIVE SumOver(_, _)
\* sum([f[j] for j in seq])
SumOver(f, seq) ==
    IF seq = <<>> THEN 0 ELSE f[Head(seq)] + SumOver(f, Tail(seq))

Range(seq) == {seq[i] : i \in 1 .. Len(seq)}

\* How a call ended: op names the operation, kind is "ok" (returned None or
\* self), "avg" (process returned num/den), or the exception raised.
Outcome(op, kind, num, den) == [op |-> op, kind |-> kind, num |-> num, den |-> den]
Returned(op) == Outcome(op, "ok", 0, 0)
Raised(op, exc) == Outcome(op, exc, 0, 0)

\* --------------------------------------------------------------------- Job
time_remaining(j) == time_required[j] - time_elapsed[j]

is_complete(j) == time_remaining(j) <= 0

\* faulty variant: the test with >= for >: spending exactly the remainder raises
SpendTimeRaisesAtLimit(j, time_spent) ==
    time_elapsed[j] + time_spent >= time_required[j]

\* spend_time's test: the amount would spend more than the job needs
SpendTimeRaises(j, time_spent) ==
    time_elapsed[j] + time_spent > time_required[j]

\* faulty variant: the stamp is written on every call
StampAlwaysWritten(j) == TRUE

\* set_turnaround_time's first test: the job is not yet complete
TurnaroundRaises(j) == ~is_complete(j)

\* faulty variant: the test inverted: the stamp is written only over a stamp
StampIsSet(j) == turnaround_time[j] # 0

\* set_turnaround_time's second test: the stamp is written only when the
\* field is still falsy (0)
StampIsUnset(j) == turnaround_time[j] = 0

\* the jobs of Scheduler s, read through its reference
Jobs(s) == list_heap[jobs[s]]

Exists(s) == jobs[s] # NoList

\* faulty variant: a job is inserted before the jobs of equal key, so the
\* sort is not stable
RECURSIVE InsertBeforeEqual(_, _)
InsertBeforeEqual(j, sorted) ==
    IF sorted = <<>> THEN <<j>>
    ELSE IF time_required[Head(sorted)] < time_required[j]
         THEN <<Head(sorted)>> \o InsertBeforeEqual(j, Tail(sorted))
         ELSE <<j>> \o sorted

\* list.sort(key = lambda job: job.time_required) is a stable sort: insert
\* each job, left to right, after the jobs whose key is not larger.
RECURSIVE InsertByKey(_, _)
InsertByKey(j, sorted) ==
    IF sorted = <<>> THEN <<j>>
    ELSE IF time_required[Head(sorted)] <= time_required[j]
         THEN <<Head(sorted)>> \o InsertByKey(j, Tail(sorted))
         ELSE <<j>> \o sorted

RECURSIVE SortFrom(_, _)
SortFrom(seq, sorted) ==
    IF seq = <<>> THEN sorted
    ELSE SortFrom(Tail(seq), InsertByKey(Head(seq), sorted))

SortByTimeRequired(seq) == SortFrom(seq, <<>>)

\* --------------------------------------------------------------- Scheduler
Idle == pc = "idle"

\* the frame of a finished process() call is gone once the caller goes on
DropFrame ==
    /\ pc' = "idle"
    /\ self' = NoSched
    /\ idx' = 0
    /\ total_time_elapsed' = 0
    /\ jobs_complete' = {}

\* schedule after order_first_serve / order_round_robin on the list js
CopyOf(js) == [i \in 1 .. Len(js) |-> js[i]]

\* faulty variant: order_shortest leaves schedule in the order it has
KeptSchedule(s) == schedule[s]

\* schedule after order_shortest: the present schedule, sorted in place
ShortestSchedule(s) == SortByTimeRequired(schedule[s])

order_first_serve(s) ==
    /\ Idle /\ Exists(s)
    /\ schedule' = [schedule EXCEPT ![s] = CopyOf(Jobs(s))]
    /\ ordering_method' = [ordering_method EXCEPT ![s] = "FCFS"]
    /\ outcome' = Returned("order_first_serve")
    /\ DropFrame
    /\ UNCHANGED <<jobVars, list_heap, jobs, rr_time>>

order_shortest(s) ==
    /\ Idle /\ Exists(s)
    /\ schedule' = [schedule EXCEPT ![s] = ShortestSchedule(s)]
    /\ ordering_method' = [ordering_method EXCEPT ![s] = "SJF"]
    /\ outcome' = Returned("order_shortest")
    /\ DropFrame
    /\ UNCHANGED <<jobVars, list_heap, jobs, rr_time>>

order_round_robin(s, time_slice) ==
    /\ Idle /\ Exists(s)
    /\ schedule' = [schedule EXCEPT ![s] = CopyOf(Jobs(s))]
    /\ rr_time' = [rr_time EXCEPT ![s] = time_slice]
    /\ ordering_method' = [ordering_method EXCEPT ![s] = "RR"]
    /\ outcome' = Returned("order_round_robin")
    /\ DropFrame
    /\ UNCHANGED <<jobVars, list_heap, jobs>>

\* schedule of s after add_job has appended to its jobs (now js) and called
\* the order_* method of the current ordering_method
ScheduleAfterAdd(s, js) ==
    CASE ordering_method[s] = "FCFS" -> CopyOf(js)
      [] ordering_method[s] = "SJF" -> ShortestSchedule(s)
      [] ordering_method[s] = "RR" -> CopyOf(js)

\* faulty variant: add_job always ends under first come first serve
MethodAlwaysFirstServe(s) == "FCFS"

\* ordering_method of s after add_job: the order_* method called is the one
\* of the current ordering_method, and it sets ordering_method to its own
MethodAfterAdd(s) ==
    CASE ordering_method[s] = "FCFS" -> "FCFS"
      [] ordering_method[s] = "SJF" -> "SJF"
      [] ordering_method[s] = "RR" -> "RR"

\* rr_time of s after add_job: order_round_robin(self.rr_time) writes it
\* back, the other order_* methods do not touch it
SliceAfterAdd(s) == rr_time[s]

add_job(s, j) ==
    /\ Idle /\ Exists(s)
    /\ Len(Jobs(s)) < MaxLen
    /\ list_heap' = [list_heap EXCEPT ![jobs[s]] = Append(@, j)]
    /\ schedule' = [schedule EXCEPT ![s] = ScheduleAfterAdd(s, list_heap'[jobs[s]])]
    /\ ordering_method' = [ordering_method EXCEPT ![s] = MethodAfterAdd(s)]
    /\ rr_time' = [rr_time EXCEPT ![s] = SliceAfterAdd(s)]
    /\ outcome' = Returned("add_job")
    /\ DropFrame
    /\ UNCHANGED <<jobVars, jobs>>

\* _pre_process: the time-slice check
PreProcessRaises(s) == ordering_method[s] = "RR" /\ rr_time[s] = 0

\* faulty variant: reset_job leaves turnaround_time as it was
TurnaroundKept(s) == turnaround_time

\* _pre_process: job.reset_job() for every job in schedule, time_elapsed
ElapsedReset(s) ==
    [j \in JobIds |-> IF j \in Range(schedule[s]) THEN 0 ELSE time_elapsed[j]]

\* _pre_process: job.reset_job() for every job in schedule, turnaround_time
TurnaroundReset(s) ==
    [j \in JobIds |-> IF j \in Range(schedule[s]) THEN 0 ELSE turnaround_time[j]]

\* faulty variant: the quantum is ignored: every visit spends all that remains
TimeToSpendUnsliced(s, j) == time_remaining(j)

\* faulty variant: the quantum is used under every ordering method
TimeToSpendQuantumAlways(s, j) == Min(rr_time[s], time_remaining(j))

\* faulty variant: under RR the quantum is spent whatever remains
TimeToSpendUnclamped(s, j) ==
    IF ordering_method[s] = "RR" THEN rr_time[s] ELSE time_remaining(j)

\* faulty variant: under RR a visit spends one unit whatever the time slice
TimeToSpendUnitQuantum(s, j) ==
    Min(IF ordering_method[s] = "RR" THEN 1 ELSE time_remaining(j),
        time_remaining(j))

\* process(): the amount spent on job j in one visit
time_to_spend(s, j) ==
    Min(IF ordering_method[s] = "RR" THEN rr_time[s] ELSE time_remaining(j),
        time_remaining(j))

\* process() is called: _pre_process raises, or resets the scheduled jobs
\* and the loop is entered
process(s) ==
    /\ Idle /\ Exists(s)
    /\ IF PreProcessRaises(s)
       THEN /\ outcome' = Raised("process", "ValueError")
            /\ DropFrame
            /\ UNCHANGED <<jobVars, schedVars>>
       ELSE /\ time_elapsed' = ElapsedReset(s)
            /\ turnaround_time' = TurnaroundReset(s)
            /\ first_stamp' = [j \in JobIds |->
                    IF j \in Range(schedule[s]) THEN <<>> ELSE first_stamp[j]]
            /\ pc' = "while"
            /\ self' = s
            /\ idx' = 0
            /\ total_time_elapsed' = 0
            /\ jobs_complete' = {}
            /\ outcome' = Outcome("process", "running", 0, 0)
            /\ UNCHANGED <<time_required, schedVars>>

\* the while test holds: a sweep of schedule begins
SweepBegin ==
    /\ pc = "while"
    /\ Cardinality(jobs_complete) # Len(schedule[self])
    /\ pc' = "for"
    /\ idx' = 1
    /\ UNCHANGED <<jobVars, schedVars, self, total_time_elapsed,
                   jobs_complete, outcome>>

\* the for loop moves on: to the next job, or back to the while test
Advance ==
    IF idx = Len(schedule[self])
    THEN pc' = "while" /\ idx' = 0
    ELSE pc' = "for" /\ idx' = idx + 1

\* one iteration of the for loop, on job schedule[idx]
Visit ==
    /\ pc = "for"
    /\ \E j \in {schedule[self][idx]} :
       LET spent == time_to_spend(self, j)
       IN IF is_complete(j)
          THEN /\ Advance
               /\ UNCHANGED <<jobVars, schedVars, self, total_time_elapsed,
                              jobs_complete, outcome>>
          ELSE /\ total_time_elapsed + spent >= 0 - MaxClock
               /\ IF SpendTimeRaises(j, spent)
                  THEN /\ outcome' = Raised("process", "ValueError")
                       /\ pc' = "idle"
                       /\ UNCHANGED <<jobVars, schedVars, self, idx,
                                      total_time_elapsed, jobs_complete>>
                  ELSE /\ UNCHANGED <<time_required, schedVars, self>>
                       /\ time_elapsed' = [time_elapsed EXCEPT ![j] = @ + spent]
                       /\ total_time_elapsed' = total_time_elapsed + spent
                       /\ IF is_complete(j)'
                          THEN /\ jobs_complete' = jobs_complete \cup {j}
                               /\ IF TurnaroundRaises(j)'
                                  THEN /\ outcome' = Raised("process", "ValueError")
                                       /\ pc' = "idle"
                                       /\ UNCHANGED <<idx, turnaround_time,
                                                      first_stamp>>
                                  ELSE /\ IF StampIsUnset(j)
                                          THEN turnaround_time' =
                                                 [turnaround_time EXCEPT
                                                    ![j] = total_time_elapsed']
                                          ELSE UNCHANGED turnaround_time
                                       /\ first_stamp' =
                                             [first_stamp EXCEPT ![j] =
                                                IF @ = <<>>
                                                THEN <<total_time_elapsed'>>
                                                ELSE @]
                                       /\ UNCHANGED outcome
                                       /\ Advance
                          ELSE /\ UNCHANGED <<jobs_complete, turnaround_time,
                                              first_stamp, outcome>>
                               /\ Advance

\* faulty variant: an empty jobs is given the average 0
AverageOrZero(s) ==
    IF Len(Jobs(s)) = 0
    THEN Outcome("process", "avg", 0, 1)
    ELSE Outcome("process", "avg",
                 SumOver(turnaround_time, Jobs(s)), Len(Jobs(s)))

\* process(): average_turnaround = sum(...) / len(self.jobs), as the outcome
\* of the call
average_turnaround(s) ==
    IF Len(Jobs(s)) = 0
    THEN Raised("process", "ZeroDivisionError")
    ELSE Outcome("process", "avg",
                 SumOver(turnaround_time, Jobs(s)), Len(Jobs(s)))

\* the while test fails: the average is computed and returned
Finish ==
    /\ pc = "while"
    /\ Cardinality(jobs_complete) = Len(schedule[self])
    /\ outcome' = average_turnaround(self)
    /\ pc' = "idle"
    /\ UNCHANGED <<jobVars, schedVars, self, idx, total_time_elapsed,
                   jobs_complete>>

ProcessStep == SweepBegin \/ Visit \/ Finish

\* ------------------------------------------------- Job, called directly
spend_time(j, time_spent) ==
    /\ Idle
    /\ IF SpendTimeRaises(j, time_spent)
       THEN /\ outcome' = Raised("spend_time", "ValueError")
            /\ UNCHANGED time_elapsed
       ELSE /\ outcome' = Returned("spend_time")
            /\ time_elapsed' = [time_elapsed EXCEPT ![j] = @ + time_spent]
    /\ DropFrame
    /\ UNCHANGED <<time_required, turnaround_time, first_stamp, schedVars>>

reset_job(j) ==
    /\ Idle
    /\ time_elapsed' = [time_elapsed EXCEPT ![j] = 0]
    /\ turnaround_time' = [turnaround_time EXCEPT ![j] = 0]
    /\ first_stamp' = [first_stamp EXCEPT ![j] = <<>>]
    /\ outcome' = Returned("reset_job")
    /\ DropFrame
    /\ UNCHANGED <<time_required, schedVars>>

set_turnaround_time(j, value) ==
    /\ Idle
    /\ IF TurnaroundRaises(j)
       THEN /\ outcome' = Raised("set_turnaround_time", "ValueError")
            /\ UNCHANGED <<turnaround_time, first_stamp>>
       ELSE /\ outcome' = Returned("set_turnaround_time")
            /\ IF StampIsUnset(j)
               THEN turnaround_time' = [turnaround_time EXCEPT ![j] = value]
               ELSE UNCHANGED turnaround_time
            /\ first_stamp' = [first_stamp EXCEPT ![j] =
                   IF @ = <<>> THEN <<value>> ELSE @]
    /\ DropFrame
    /\ UNCHANGED <<time_required, time_elapsed, schedVars>>

\* ---------------------------------------------------------- specifications
\* Job.__init__ for every job of the pool, with the required times req
JobsCreated(req) ==
    /\ time_required = req
    /\ time_elapsed = [j \in JobIds |-> 0]
    /\ turnaround_time = [j \in JobIds |-> 0]
    /\ first_stamp = [j \in JobIds |-> <<>>]

NoFrame ==
    /\ pc = "idle"
    /\ self = NoSched
    /\ idx = 0
    /\ total_time_elapsed = 0
    /\ jobs_complete = {}

\* Scheduler.__init__(jobs) for scheduler "s1" on list object l holding js
OneScheduler(l, js) ==
    /\ list_heap = [m \in ListIds |-> IF m = l THEN js ELSE <<>>]
    /\ jobs = [s \in Scheds |-> IF s = "s1" THEN l ELSE NoList]
    /\ schedule = [s \in Scheds |-> IF s = "s1" THEN CopyOf(js) ELSE <<>>]
    /\ ordering_method = [s \in Scheds |-> "FCFS"]
    /\ rr_time = [s \in Scheds |-> 0]

\* the jobs A=5, B=3, C=8
Scenario == [j \in JobIds |-> CASE j = 0 -> 5 [] j = 1 -> 3 [] j = 2 -> 8
                                  [] OTHER -> 1]

\* the list <<job 0, ..., job n-1>>
FirstJobs(n) == [i \in 1 .. n |-> i - 1]

\* Either the jobs of Pool created with any required times (a job outside
\* Pool is never used) and Scheduler() on the default list, or the jobs
\* A, B, C and Scheduler([A, B, C]) on the caller's list.
Init ==
    /\ \/ /\ \E r \in [Pool -> TimeValues] :
                JobsCreated([j \in JobIds |-> IF j \in Pool THEN r[j] ELSE 1])
          /\ OneScheduler(DefaultList, <<>>)
       \/ /\ JobsCreated(Scenario)
          /\ OneScheduler(CallerList, FirstJobs(3))
    /\ NoFrame
    /\ outcome = Returned("__init__")

Next ==
    \/ \E s \in Scheds, j \in Pool : add_job(s, j)
    \/ \E s \in Scheds : order_first_serve(s)
    \/ \E s \in Scheds : order_shortest(s)
    \/ \E s \in Scheds, q \in TimeValues : order_round_robin(s, q)
    \/ \E s \in Scheds : process(s)
    \/ SweepBegin
    \/ Visit
    \/ Finish

Spec == Init /\ [][Next]_vars

\* process() runs on: the interpreter executes the loop until it ends
FairSpec == Spec /\ WF_vars(ProcessStep)

\* ------------------------------------------------ Job objects used alone
NoScheduler ==
    /\ list_heap = [m \in ListIds |-> <<>>]
    /\ jobs = [s \in Scheds |-> NoList]
    /\ schedule = [s \in Scheds |-> <<>>]
    /\ ordering_method = [s \in Scheds |-> "FCFS"]
    /\ rr_time = [s \in Scheds |-> 0]

DirectJobs == {0, 1}            \* the jobs the caller drives directly

JobInit ==
    /\ \E r \in [DirectJobs -> TimeValues] :
          JobsCreated([j \in JobIds |-> IF j \in DirectJobs THEN r[j] ELSE 1])
    /\ NoScheduler
    /\ NoFrame
    /\ outcome = Returned("__init__")

\* a direct spend_time call that would take time_elapsed below -MaxClock
\* is not made
JobNext ==
    \/ \E j \in DirectJobs, t \in TimeValues :
          time_elapsed[j] + t >= 0 - MaxClock /\ spend_time(j, t)
    \/ \E j \in DirectJobs : reset_job(j)
    \/ \E j \in DirectJobs, v \in TimeValues : set_turnaround_time(j, v)

JobSpec == JobInit /\ [][JobNext]_vars

\* ------------------------------------- the test driver (check_case) at large
\* Scheduler(jobs) on the caller's list: n jobs with positive required
\* times, or the jobs A, B, C
RunsInit ==
    /\ \/ \E n \in 0 .. NumJobs : \E r \in [0 .. (n - 1) -> 1 .. MaxRunTime] :
             /\ JobsCreated([j \in JobIds |-> IF j < n THEN r[j] ELSE 1])
             /\ OneScheduler(CallerList, FirstJobs(n))
       \/ /\ JobsCreated(Scenario)
          /\ OneScheduler(CallerList, FirstJobs(3))
    /\ NoFrame
    /\ outcome = Returned("__init__")

\* the four policies of check_case, in any order and any number of times
RunsNext ==
    \/ \E s \in Scheds : order_first_serve(s)
    \/ \E s \in Scheds : order_shortest(s)
    \/ \E s \in Scheds, q \in Quanta : order_round_robin(s, q)
    \/ \E s \in Scheds : process(s)
    \/ SweepBegin
    \/ Visit
    \/ Finish

RunsSpec == RunsInit /\ [][RunsNext]_vars

\* ------------------------------- one policy alone, on a fresh Scheduler
\* process() as a function: the state st = [el, tt, clock, done] of a run
\* over schedule sch at position i (0: at the while test), run to its end.
RECURSIVE FreshRun(_, _, _, _, _)
FreshRun(sch, method, slice, st, i) ==
    IF i = 0
    THEN IF Cardinality(st.done) = Len(sch) THEN st
         ELSE FreshRun(sch, method, slice, st, 1)
    ELSE LET j == sch[i]
             remaining == time_required[j] - st.el[j]
             spent == Min(IF method = "RR" THEN slice ELSE remaining, remaining)
             el2 == [st.el EXCEPT ![j] = @ + spent]
             clock2 == st.clock + spent
             complete == time_required[j] - el2[j] <= 0
             next == IF i = Len(sch) THEN 0 ELSE i + 1
         IN IF remaining <= 0
            THEN FreshRun(sch, method, slice, st, next)
            ELSE FreshRun(sch, method, slice,
                          [el |-> el2,
                           clock |-> clock2,
                           done |-> IF complete THEN st.done \cup {j} ELSE st.done,
                           tt |-> IF complete /\ st.tt[j] = 0
                                  THEN [st.tt EXCEPT ![j] = clock2] ELSE st.tt],
                          next)

\* schedule of Scheduler(js) after the order_* call of the method
FreshSchedule(js, method) ==
    IF method = "SJF" THEN SortByTimeRequired(js) ELSE js

\* turnaround_time of every job after Scheduler(js), the order_* call of the
\* method and process(), the jobs being new
FreshTurnaround(js, method, slice) ==
    FreshRun(FreshSchedule(js, method), method, slice,
             [el |-> [j \in JobIds |-> 0], tt |-> [j \in JobIds |-> 0],
              clock |-> 0, done |-> {}], 0).tt

\* ------------------------------------------- two Schedulers side by side
\* Scheduler.__init__(jobs) for scheduler s: jobs is the list object l
\* itself (the default argument's list, made once at definition time, or a
\* list of the caller), schedule is a new list with the same jobs
Scheduler_init(s, l) ==
    /\ Idle /\ ~Exists(s)
    /\ jobs' = [jobs EXCEPT ![s] = l]
    /\ schedule' = [schedule EXCEPT ![s] = CopyOf(list_heap[l])]
    /\ ordering_method' = [ordering_method EXCEPT ![s] = "FCFS"]
    /\ rr_time' = [rr_time EXCEPT ![s] = 0]
    /\ outcome' = Returned("__init__")
    /\ DropFrame
    /\ UNCHANGED <<jobVars, list_heap>>

\* the jobs exist, with positive required times; the caller has built a
\* list, empty or holding the first job; no Scheduler exists yet
PairInit ==
    /\ \E r \in [Pool -> 1 .. MaxTime] :
          JobsCreated([j \in JobIds |-> IF j \in Pool THEN r[j] ELSE 1])
    /\ \E n \in 0 .. 1 :
          list_heap = [m \in ListIds |->
                          IF m = CallerList THEN FirstJobs(n) ELSE <<>>]
    /\ jobs = [s \in Scheds |-> NoList]
    /\ schedule = [s \in Scheds |-> <<>>]
    /\ ordering_method = [s \in Scheds |-> "FCFS"]
    /\ rr_time = [s \in Scheds |-> 0]
    /\ NoFrame
    /\ outcome = Returned("__init__")

\* Scheduler() or Scheduler(the caller's list), at most once per Scheduler
\* name, and the calls that build a schedule
PairNext ==
    \/ \E s \in Scheds, l \in ListIds : Scheduler_init(s, l)
    \/ \E s \in Scheds, j \in Pool : add_job(s, j)
    \/ \E s \in Scheds : order_first_serve(s)
    \/ \E s \in Scheds : order_shortest(s)

PairSpec == PairInit /\ [][PairNext]_vars

\* ================================================================== claims
ReturnedAverage == pc = "idle" /\ outcome.op = "process" /\ outcome.kind = "avg"

Count(seq, j) == Cardinality({i \in 1 .. Len(seq) : seq[i] = j})

IsPermutation(a, b) ==
    /\ Len(a) = Len(b)
    /\ \A j \in JobIds : Count(a, j) = Count(b, j)

\* C1: between calls, schedule holds exactly the jobs of jobs: a permutation
\* of jobs under FCFS and SJF, jobs itself under FCFS and RR.
C1_ScheduleHoldsJobs ==
    \A s \in Scheds :
        (Exists(s) /\ pc = "idle") =>
            /\ IsPermutation(schedule[s], Jobs(s))
            /\ ordering_method[s] \in {"FCFS", "RR"} => schedule[s] = Jobs(s)

\* C2: when process() has returned an average (on jobs created with positive
\* required times), every job in jobs is
\* complete with time_elapsed = time_required, was completed in this run,
\* and the average is the sum of the jobs' completion stamps over their
\* number.
C2_ReturnedAverageOverAllJobs ==
    (ReturnedAverage /\ \A j \in Range(Jobs(self)) : time_required[j] > 0) =>
        /\ \A j \in Range(Jobs(self)) :
              /\ time_elapsed[j] = time_required[j]
              /\ j \in jobs_complete
        /\ outcome.num = SumOver(turnaround_time, Jobs(self))
        /\ outcome.den = Len(Jobs(self))

\* C3: a process() call made under RR with time_slice <= 0 raises the
\* configuration error and changes no Job and no Scheduler field.
C3_BadQuantumFails ==
    [][\A s \in Scheds :
          (ordering_method[s] = "RR" /\ rr_time[s] <= 0 /\ process(s)) =>
              /\ outcome'.kind = "ValueError"
              /\ pc' = "idle"
              /\ UNCHANGED <<jobVars, schedVars>>]_vars

\* the precondition of C4 on the Scheduler whose process() runs
PositiveWorkload(s) ==
    /\ \A j \in Range(Jobs(s)) : time_required[j] > 0
    /\ ordering_method[s] = "RR" => rr_time[s] > 0

\* C4: process() terminates: a run over jobs with positive required times
\* and, under RR, a positive time slice eventually leaves the loop.
C4_ProcessTerminates ==
    \A s \in Scheds :
        (pc # "idle" /\ self = s /\ PositiveWorkload(s)) ~> (pc = "idle")

\* C5: every Job (created with a positive required time) has
\* 0 <= time_elapsed <= time_required.
C5_ElapsedWithinRequired ==
    \A j \in JobIds :
        time_required[j] > 0 =>
            (0 <= time_elapsed[j] /\ time_elapsed[j] <= time_required[j])

\* C6: spend_time(amount) raises and leaves time_elapsed and turnaround_time
\* as they were when time_elapsed + amount > time_required; otherwise it
\* returns, adds exactly amount to time_elapsed of that job and changes
\* nothing else of any job.
C6_SpendTimeContract ==
    [][\A j \in DirectJobs, t \in TimeValues :
          spend_time(j, t) =>
              IF time_elapsed[j] + t > time_required[j]
              THEN /\ outcome' = Raised("spend_time", "ValueError")
                   /\ UNCHANGED <<time_required, time_elapsed, turnaround_time>>
              ELSE /\ outcome' = Returned("spend_time")
                   /\ time_elapsed'[j] = time_elapsed[j] + t
                   /\ \A k \in JobIds \ {j} : time_elapsed'[k] = time_elapsed[k]
                   /\ UNCHANGED <<time_required, turnaround_time>>]_vars

\* C6 witness: a spend_time call has raised on a job that an earlier call
\* had advanced, and which is not complete.
C6_Witness ==
    /\ outcome = Raised("spend_time", "ValueError")
    /\ \E j \in DirectJobs :
          0 < time_elapsed[j] /\ time_elapsed[j] < time_required[j]

\* C7 as claimed: the value of the first successful set_turnaround_time on a
\* complete job stays in turnaround_time whatever is stamped later.
C7_FirstStampWins ==
    \A j \in JobIds :
        (time_required[j] > 0 /\ first_stamp[j] # <<>>) =>
            turnaround_time[j] = first_stamp[j][1]

\* C7 as amended: set_turnaround_time(value) raises and changes nothing on a
\* job that is not complete; on a complete job it writes value when
\* turnaround_time is 0 and is a no-op otherwise; so the first stamp stays
\* whenever it is not 0.
C7_FirstNonzeroStampWins ==
    [][/\ \A j \in DirectJobs, v \in TimeValues :
            set_turnaround_time(j, v) =>
                IF time_elapsed[j] < time_required[j]
                THEN /\ outcome' = Raised("set_turnaround_time", "ValueError")
                     /\ UNCHANGED <<time_required, time_elapsed, turnaround_time>>
                ELSE /\ outcome' = Returned("set_turnaround_time")
                     /\ turnaround_time'[j] =
                          IF turnaround_time[j] = 0 THEN v ELSE turnaround_time[j]
                     /\ UNCHANGED <<time_required, time_elapsed>>
       /\ \A j \in JobIds :
            (first_stamp'[j] # <<>> /\ first_stamp'[j][1] # 0) =>
                turnaround_time'[j] = first_stamp'[j][1]]_vars

\* C7 witness: one job was stamped 0 first and then with another value,
\* which it now holds; another was stamped non-zero first and holds that.
C7_Witness ==
    /\ outcome = Returned("set_turnaround_time")
    /\ \E j \in DirectJobs :
          first_stamp[j] = <<0>> /\ turnaround_time[j] = MaxTime
    /\ \E k \in DirectJobs :
          /\ time_required[k] > 0
          /\ first_stamp[k] # <<>> /\ first_stamp[k][1] # 0
          /\ turnaround_time[k] = first_stamp[k][1]

\* process() has returned on the jobs A=5, B=3, C=8 inserted in this order
ScenarioReturned(method) ==
    /\ ReturnedAverage
    /\ time_required = Scenario
    /\ Jobs(self) = <<0, 1, 2>>
    /\ ordering_method[self] = method

\* C8 as claimed: under RR with time slice 2, B completes at clock 7, A at
\* 11 and C at 16, and the average is 34/3.
C8_ScenarioRR2AsClaimed ==
    (ScenarioReturned("RR") /\ rr_time[self] = 2) =>
        /\ turnaround_time[1] = 7
        /\ turnaround_time[0] = 11
        /\ turnaround_time[2] = 16
        /\ outcome.num = 34 /\ outcome.den = 3

\* C8 as amended: under RR with time slice 2, B completes at clock 9, A at
\* 12 and C at 16, and the average is 37/3.
C8_ScenarioRR2 ==
    (ScenarioReturned("RR") /\ rr_time[self] = 2) =>
        /\ turnaround_time[1] = 9
        /\ turnaround_time[0] = 12
        /\ turnaround_time[2] = 16
        /\ outcome.num = 37 /\ outcome.den = 3

\* C8 witness: process() has returned under RR(2) on A, B, C.
C8_Witness ==
    /\ ScenarioReturned("RR") /\ rr_time[self] = 2
    /\ jobs_complete = {0, 1, 2}

\* sum of time_required over the first k entries of schedule
RequiredUpTo(s, k) == SumOver(time_required, SubSeq(schedule[s], 1, k))

\* C9: under FCFS and SJF every visit to an incomplete job completes it, and
\* when process() has returned the turnaround_time of the job at each
\* position of schedule is the sum of time_required up to that position;
\* for A=5, B=3, C=8: FCFS A=5, B=8, C=16 and SJF B=3, A=8, C=16.
C9_RunToCompletion ==
    [][/\ (Visit /\ ordering_method[self] \in {"FCFS", "SJF"}
              /\ ~is_complete(schedule[self][idx])) =>
            /\ outcome'.kind = "running"
            /\ time_elapsed'[schedule[self][idx]] =
                  time_required[schedule[self][idx]]
            /\ schedule[self][idx] \in jobs_complete'
       /\ \A s \in Scheds :
            (ReturnedAverage' /\ self' = s
               /\ ordering_method'[s] \in {"FCFS", "SJF"}) =>
                \A k \in 1 .. Len(schedule'[s]) :
                    turnaround_time'[schedule'[s][k]] = RequiredUpTo(s, k)'
       /\ ScenarioReturned("FCFS")' =>
            /\ turnaround_time'[0] = 5
            /\ turnaround_time'[1] = 8
            /\ turnaround_time'[2] = 16
       /\ ScenarioReturned("SJF")' =>
            /\ turnaround_time'[1] = 3
            /\ turnaround_time'[0] = 8
            /\ turnaround_time'[2] = 16]_vars

\* C9 witness: process() has returned under SJF on A, B, C, swept as B, A, C.
C9_Witness ==
    /\ ScenarioReturned("SJF")
    /\ schedule[self] = <<1, 0, 2>>
    /\ jobs_complete = {0, 1, 2}

\* C10: whatever ran before on the same Scheduler, a process() call starts
\* with no elapsed time on the scheduled jobs, and when it has returned the
\* turnaround_time of every job and the average are those of the same
\* policy run alone on a fresh Scheduler over the same jobs.
C10_RunsIndependent ==
    /\ pc # "idle" =>
          SumOver(time_elapsed, schedule[self]) = total_time_elapsed
    /\ ReturnedAverage =>
          LET fresh == FreshTurnaround(Jobs(self), ordering_method[self],
                                       rr_time[self])
          IN /\ \A j \in Range(Jobs(self)) : turnaround_time[j] = fresh[j]
             /\ outcome.num = SumOver(fresh, Jobs(self))
             /\ outcome.den = Len(Jobs(self))

\* C10 witness: process() has returned under SJF on A, B, C on a Scheduler
\* that had run RR(5) before (rr_time is still 5).
C10_Witness ==
    /\ ScenarioReturned("SJF")
    /\ rr_time[self] = 5
    /\ turnaround_time[1] = 3

\* C11: conservation: when process() has returned (on jobs created with
\* positive required times, under FCFS, SJF, or RR with a positive quantum),
\* the final clock is the sum of time_required over all jobs of the
\* Scheduler, and every one of them has spent exactly its time_required.
C11_Conservation ==
    (ReturnedAverage /\ PositiveWorkload(self)) =>
        /\ total_time_elapsed = SumOver(time_required, Jobs(self))
        /\ \A j \in Range(Jobs(self)) : time_elapsed[j] = time_required[j]

\* C12: quantum clamp: under RR with quantum Q, a visit to an incomplete job
\* adds to its time_elapsed exactly the smaller of Q and the time that
\* remained just before the visit, and so never more than either.
C12_QuantumClamp ==
    [][\A j \in JobIds :
          (Visit /\ ordering_method[self] = "RR" /\ schedule[self][idx] = j
             /\ time_elapsed[j] < time_required[j]) =>
              /\ outcome'.kind = "running"
              /\ time_elapsed'[j] - time_elapsed[j] =
                    IF rr_time[self] <= time_required[j] - time_elapsed[j]
                    THEN rr_time[self]
                    ELSE time_required[j] - time_elapsed[j]
              /\ time_elapsed'[j] - time_elapsed[j] <= rr_time[self]
              /\ time_elapsed'[j] <= time_required[j]]_vars

\* C12 witness: inside process() under RR(2) on A=5, B=3, C=8: B was
\* advanced by the quantum and then by the 1 that remained, C by the quantum.
C12_Witness ==
    /\ pc = "for"
    /\ time_required = Scenario
    /\ ordering_method[self] = "RR" /\ rr_time[self] = 2
    /\ time_elapsed[1] = 3
    /\ time_elapsed[2] = 2

\* C13: monotonic clock: during process() the clock never decreases; a
\* visit to an incomplete job increases it, by exactly what was added to
\* that job's time_elapsed; a visit to a complete job leaves it unchanged.
C13_MonotonicClock ==
    [][/\ ProcessStep => total_time_elapsed' >= total_time_elapsed
       /\ \A j \in JobIds :
            (Visit /\ schedule[self][idx] = j) =>
                IF time_elapsed[j] < time_required[j]
                THEN /\ total_time_elapsed' > total_time_elapsed
                     /\ total_time_elapsed' - total_time_elapsed =
                           time_elapsed'[j] - time_elapsed[j]
                ELSE total_time_elapsed' = total_time_elapsed]_vars

\* the jobs of seq whose time_required is t, in the order they have in seq
WithKey(seq, t) == SelectSeq(seq, LAMBDA j : time_required[j] = t)

\* C14: after order_shortest(), schedule is in ascending order of
\* time_required, and the jobs of equal time_required are the same, in the
\* same relative order, as in schedule just before the call.
C14_ShortestIsStableSort ==
    [][\A s \in Scheds :
          order_shortest(s) =>
              /\ \A i \in 1 .. Len(schedule'[s]) - 1 :
                    time_required[schedule'[s][i]] <=
                        time_required[schedule'[s][i + 1]]
              /\ \A t \in {time_required[j] : j \in JobIds} :
                    WithKey(schedule'[s], t) = WithKey(schedule[s], t)]_vars

\* C14 witness: order_shortest() has returned on a schedule of two jobs of
\* equal time_required, the job created second standing first.
C14_Witness ==
    /\ outcome = Returned("order_shortest")
    /\ \E s \in Scheds :
          /\ schedule[s] = <<1, 0>>
          /\ time_required[1] = time_required[0]

\* C15: process() on a Scheduler whose jobs is empty fails, whatever the
\* ordering method: the call raises in the pre-check, or it reaches the
\* while test, which fails at once, and the average then raises; no average
\* is ever returned for an empty jobs.
C15_EmptyJobsFail ==
    [][/\ \A s \in Scheds :
            (process(s) /\ Jobs(s) = <<>>) =>
                \/ pc' = "idle" /\ outcome' = Raised("process", "ValueError")
                \/ /\ pc' = "while"
                   /\ Cardinality(jobs_complete') = Len(schedule'[s])
       /\ (ProcessStep /\ Jobs(self) = <<>>) =>
             /\ pc' = "idle"
             /\ outcome' = Raised("process", "ZeroDivisionError")
       /\ (outcome'.op = "process" /\ outcome'.kind = "avg") =>
             Jobs(self)' # <<>>]_vars

\* C15 witness: process() has failed in the average on a Scheduler with no
\* jobs set to SJF.
C15_Witness ==
    /\ pc = "idle"
    /\ outcome = Raised("process", "ZeroDivisionError")
    /\ Jobs(self) = <<>>
    /\ ordering_method[self] = "SJF"

\* the order_* method that sets each ordering_method
OrderCallOf(method) ==
    CASE method = "FCFS" -> "order_first_serve"
      [] method = "SJF" -> "order_shortest"
      [] method = "RR" -> "order_round_robin"

\* C16: every step of process(), the failing ones too, leaves
\* ordering_method, rr_time, jobs and schedule as they were; add_job leaves
\* ordering_method and rr_time as they were; ordering_method changes only in
\* an order_* call, to the policy that call names.
C16_PolicyFrame ==
    [][/\ (ProcessStep \/ \E s \in Scheds : process(s)) =>
             UNCHANGED <<list_heap, jobs, schedule, ordering_method, rr_time>>
       /\ \A s \in Scheds, j \in Pool :
             add_job(s, j) => UNCHANGED <<ordering_method, rr_time>>
       /\ \A s \in Scheds :
             ordering_method'[s] # ordering_method[s] =>
                 outcome' = Returned(OrderCallOf(ordering_method'[s]))]_vars

\* C16 witness: add_job has returned on a Scheduler under RR with a positive
\* time slice, one of whose jobs an earlier process() had completed.
C16_Witness ==
    /\ outcome = Returned("add_job")
    /\ \E s \in Scheds :
          /\ ordering_method[s] = "RR" /\ rr_time[s] > 0
          /\ \E j \in Range(Jobs(s)) : turnaround_time[j] > 0

\* C17: the loop of process() exits as soon as every job in schedule is
\* complete: at the while test, when all the scheduled jobs (created with
\* required times >= 0) are complete, the test fails and the average is
\* computed; so also when a job is complete right after the reset
\* (time_required = 0) or stands at two positions of schedule.
C17_LoopExitsWhenAllComplete ==
    (/\ pc = "while"
     /\ \A j \in Range(schedule[self]) :
           time_required[j] >= 0 /\ is_complete(j)) =>
        Cardinality(jobs_complete) = Len(schedule[self])

\* C18: within one process() run: the turnaround_time of a scheduled job is
\* 0 as long as the job is incomplete; a job becomes complete only in a
\* visit to it, which enters it in jobs_complete and writes the clock at
\* the end of that visit (not 0) over the 0; no other step of the run
\* changes any turnaround_time, so the stamp of a job completed in the run
\* stays; and when the run has returned every scheduled job holds its stamp.
C18_StampedOnceAtCompletion ==
    [][\A s \in Scheds, j \in JobIds :
          (self' = s /\ (pc' # "idle" \/ ReturnedAverage')) =>
              /\ (j \in Range(schedule'[s]) /\ ~is_complete(j)') =>
                    turnaround_time'[j] = 0
              /\ (ProcessStep /\ is_complete(j)' /\ ~is_complete(j)) =>
                    /\ Visit /\ schedule[s][idx] = j
                    /\ j \in jobs_complete' /\ j \notin jobs_complete
                    /\ turnaround_time[j] = 0
                    /\ turnaround_time'[j] = total_time_elapsed'
                    /\ turnaround_time'[j] # 0
              /\ (ProcessStep /\ turnaround_time'[j] # turnaround_time[j]) =>
                    is_complete(j)' /\ ~is_complete(j)
              /\ (ReturnedAverage' /\ j \in Range(schedule'[s])) =>
                    /\ j \in jobs_complete'
                    /\ turnaround_time'[j] = first_stamp'[j][1]]_vars

\* C18 witness: inside process() under RR(2) on A=5, B=3, C=8, B holds its
\* stamp 9 while A and C, incomplete, still hold 0.
C18_Witness ==
    /\ pc = "for"
    /\ time_required = Scenario
    /\ jobs_complete = {1}
    /\ turnaround_time[1] = 9
    /\ turnaround_time[0] = 0 /\ time_elapsed[0] = 4
    /\ turnaround_time[2] = 0

\* C19: add_job on one Scheduler leaves jobs and schedule of every other
\* existing Scheduler as they were, also when both were created with the
\* default job collection or from the same list of the caller.
C19_AddJobIsLocal ==
    [][\A s \in Scheds, t \in Scheds, j \in Pool :
          (s # t /\ Exists(t) /\ add_job(s, j)) =>
              /\ Jobs(t)' = Jobs(t)
              /\ schedule'[t] = schedule[t]]_vars

\* C20: inside process() neither spend_time nor set_turnaround_time raises:
\* no step of the loop ends in a ValueError, a visit never takes a job's
\* time_elapsed past its time_required, and the only ValueError of a
\* process() call is the pre-check's, on RR with time_slice 0.
C20_NoJobErrorInProcess ==
    [][/\ ProcessStep => outcome'.kind # "ValueError"
       /\ \A j \in JobIds :
             (Visit /\ schedule[self][idx] = j) =>
                 /\ time_elapsed'[j] <= time_required[j] \/ UNCHANGED time_elapsed
                 /\ turnaround_time'[j] # turnaround_time[j] =>
                       time_elapsed'[j] >= time_required[j]
       /\ \A s \in Scheds :
             (process(s) /\ outcome'.kind = "ValueError") =>
                 (ordering_method[s] = "RR" /\ rr_time[s] = 0)]_vars

\* C20 witness: process() has returned under RR with a time slice larger
\* than what one of its scheduled jobs needed, that job complete and stamped.
C20_Witness ==
    /\ ReturnedAverage
    /\ ordering_method[self] = "RR"
    /\ \E j \in Range(schedule[self]) :
          /\ 0 < time_required[j] /\ time_required[j] < rr_time[self]
          /\ time_elapsed[j] = time_required[j]
          /\ turnaround_time[j] > 0

\* process() has returned under RR on jobs with positive required times,
\* none larger than the time slice
ReturnedUnderWideQuantum ==
    /\ ReturnedAverage
    /\ ordering_method[self] = "RR"
    /\ \A j \in Range(Jobs(self)) :
          0 < time_required[j] /\ time_required[j] <= rr_time[self]

\* C21: when process() has returned under RR with a time slice not smaller
\* than the largest time_required (all positive), the turnaround_time of
\* every job and the average are those of order_first_serve().process() on
\* the same jobs.
C21_WideQuantumIsFirstServe ==
    ReturnedUnderWideQuantum =>
        LET fcfs == FreshTurnaround(Jobs(self), "FCFS", 0)
        IN /\ \A j \in Range(Jobs(self)) : turnaround_time[j] = fcfs[j]
           /\ outcome.num = SumOver(fcfs, Jobs(self))
           /\ outcome.den = Len(Jobs(self))

\* C21 witness: process() has returned under RR on two or more jobs, the
\* time slice being exactly the largest time_required and larger than
\* another.
C21_Witness ==
    /\ ReturnedUnderWideQuantum
    /\ Len(Jobs(self)) >= 2
    /\ \E j \in Range(Jobs(self)) : time_required[j] = rr_time[self]
    /\ \E j \in Range(Jobs(self)) : time_required[j] < rr_time[self]

\* the largest time_required among the jobs of seq (0 when there is none)
LargestRequired(seq) ==
    IF seq = <<>> THEN 0
    ELSE CHOOSE t \in {time_required[j] : j \in Range(seq)} :
            \A j \in Range(seq) : time_required[j] <= t

\* the sum of the turnaround times of the jobs js after the order_* call of
\* the method and process(), the jobs being new
FreshTotal(js, method, slice) ==
    SumOver(FreshTurnaround(js, method, slice), js)

\* C22: when order_shortest().process() has returned on jobs with positive
\* required times, its average (the sum of the turnaround times over the
\* number of jobs) is not larger than that of order_first_serve().process()
\* nor that of order_round_robin(Q).process() on the same jobs, for every
\* time slice Q > 0 (a Q above the largest time_required runs as that one).
C22_ShortestIsNoWorse ==
    (ReturnedAverage /\ ordering_method[self] = "SJF") =>
        /\ outcome.den = Len(Jobs(self))
        /\ outcome.num <= FreshTotal(Jobs(self), "FCFS", 0)
        /\ \A q \in 1 .. LargestRequired(Jobs(self)) + 1 :
              outcome.num <= FreshTotal(Jobs(self), "RR", q)

\* C22 witness: order_shortest().process() has returned on jobs given in
\* another order than ascending time_required, with a smaller sum than
\* order_first_serve().process() and order_round_robin(1).process() give.
C22_Witness ==
    /\ ReturnedAverage /\ ordering_method[self] = "SJF"
    /\ schedule[self] # Jobs(self)
    /\ outcome.num < FreshTotal(Jobs(self), "FCFS", 0)
    /\ outcome.num < FreshTotal(Jobs(self), "RR", 1)

====
